---- MODULE Spec2Model ----
(***************************************************************************)
(* A model of mygpoclient/api.py: the value objects EpisodeAction and      *)
(* PodcastDevice and the six RPC operations of MygPodderClient.            *)
(*                                                                         *)
(* Python values are tagged records: None, str (a sequence of one-         *)
(* character strings), int, float (finite, in tenths; nan; inf) and list.  *)
(* A dict is a function from key names to values.  The result of a call    *)
(* is an outcome: Return(value) or Raise(exception class).                 *)
(***************************************************************************)
EXTENDS Integers, Sequences, FiniteSets, TLC

VARIABLES client, defaults, last

vars == <<client, defaults, last>>

(***************************************************************************)
(* Bounds of the model.                                                    *)
(***************************************************************************)
MaxUrls == 2
MaxActions == 2
MaxDevices == 2

(***************************************************************************)
(* Python values and outcomes.                                             *)
(***************************************************************************)
None == [t |-> "None"]
PyStr(s) == [t |-> "str", s |-> s]
PyInt(n) == [t |-> "int", n |-> n]
PyFloat(tenths) == [t |-> "float", tenths |-> tenths]
PyNaN == [t |-> "nan"]
PyInf == [t |-> "inf"]
PyList(l) == [t |-> "list", l |-> l]
PyBool(b) == [t |-> "bool", b |-> b]

Return(v) == [kind |-> "return", value |-> v]
Raise(e) == [kind |-> "raise", exc |-> e]

EmptyDict == [k \in {} |-> None]

\* The sequences over S of length at most n.
SeqsUpTo(S, n) == UNION {[1..k -> S] : k \in 0..n}

Digits == {"0", "1", "2", "3", "4", "5", "6", "7", "8", "9"}
Whitespace == {" "}

DigitValue(c) ==
    CASE c = "0" -> 0 [] c = "1" -> 1 [] c = "2" -> 2 [] c = "3" -> 3
      [] c = "4" -> 4 [] c = "5" -> 5 [] c = "6" -> 6 [] c = "7" -> 7
      [] c = "8" -> 8 [] c = "9" -> 9

RECURSIVE LStrip(_)
LStrip(s) ==
    IF s /= <<>> /\ Head(s) \in Whitespace THEN LStrip(Tail(s)) ELSE s

RECURSIVE RStrip(_)
RStrip(s) ==
    IF s /= <<>> /\ s[Len(s)] \in Whitespace
    THEN RStrip(SubSeq(s, 1, Len(s) - 1))
    ELSE s

\* The value of a run of decimal digits in which single underscores may
\* separate digits; prev is what was read last: "start", "digit" or "_".
RECURSIVE DigitsValue(_, _, _)
DigitsValue(s, acc, prev) ==
    IF s = <<>>
    THEN IF prev = "digit" THEN [ok |-> TRUE, n |-> acc] ELSE [ok |-> FALSE, n |-> 0]
    ELSE IF Head(s) \in Digits
         THEN DigitsValue(Tail(s), acc * 10 + DigitValue(Head(s)), "digit")
         ELSE IF Head(s) = "_" /\ prev = "digit"
              THEN DigitsValue(Tail(s), acc, "_")
              ELSE [ok |-> FALSE, n |-> 0]

\* int(s) for a str s: surrounding whitespace is stripped, one sign allowed.
int_str(s) ==
    LET b == RStrip(LStrip(s))
        signed == b /= <<>> /\ Head(b) \in {"+", "-"}
        neg == b /= <<>> /\ Head(b) = "-"
        r == DigitsValue(IF signed THEN Tail(b) ELSE b, 0, "start")
    IN  IF r.ok THEN Return(PyInt(IF neg THEN 0 - r.n ELSE r.n)) ELSE Raise("ValueError")

\* Truncation of a finite float (in tenths) towards zero.
Trunc(tenths) == IF tenths >= 0 THEN tenths \div 10 ELSE 0 - ((0 - tenths) \div 10)

\* The builtin int(x).
int(x) ==
    CASE x.t = "int" -> Return(x)
      [] x.t = "bool" -> Return(PyInt(IF x.b THEN 1 ELSE 0))
      [] x.t = "float" -> Return(PyInt(Trunc(x.tenths)))
      [] x.t = "nan" -> Raise("ValueError")
      [] x.t = "inf" -> Raise("OverflowError")
      [] x.t = "str" -> int_str(x.s)
      [] OTHER -> Raise("TypeError")

\* isinstance(x, str)
isinstance_str(x) == x.t = "str"

\* all(isinstance(e, str) for e in x), for a list x
all_str(x) == \A i \in 1..Len(x.l) : isinstance_str(x.l[i])

\* d.get(k)
dict_get(d, k) == IF k \in DOMAIN d THEN d[k] ELSE None

(***************************************************************************)
(* String literals of the program and of the inputs, as character          *)
(* sequences.                                                              *)
(***************************************************************************)
s_download == <<"d", "o", "w", "n", "l", "o", "a", "d">>
s_play == <<"p", "l", "a", "y">>
s_delete == <<"d", "e", "l", "e", "t", "e">>
s_new == <<"n", "e", "w">>
s_bogus == <<"b", "o", "g", "u", "s">>
s_desktop == <<"d", "e", "s", "k", "t", "o", "p">>
s_laptop == <<"l", "a", "p", "t", "o", "p">>
s_mobile == <<"m", "o", "b", "i", "l", "e">>
s_server == <<"s", "e", "r", "v", "e", "r">>
s_other == <<"o", "t", "h", "e", "r">>
s_tablet == <<"t", "a", "b", "l", "e", "t">>
s_iso == <<"2", "0", "0", "9", "-", "1", "2", "-", "1", "2", "T", "0", "9", ":", "0", "0", ":", "0", "0">>
s_iso_z == <<"2", "0", "0", "9", "-", "1", "2", "-", "1", "2", "T", "0", "9", ":", "0", "0", ":", "0", "0", "Z">>
s_not_iso == <<"n", "o", "o", "n">>
s_pos == <<"0", "0", ":", "0", "1", ":", "0", "5">>
s_not_pos == <<"1", "m", "5", "s">>

\* s matches p: same length, a "d" of p stands for any digit.
MatchesPattern(s, p) ==
    /\ Len(s) = Len(p)
    /\ \A i \in 1..Len(p) : IF p[i] = "d" THEN s[i] \in Digits ELSE s[i] = p[i]

IsoPattern ==
    <<"d", "d", "d", "d", "-", "d", "d", "-", "d", "d", "T",
      "d", "d", ":", "d", "d", ":", "d", "d">>

PositionPattern == <<"d", "d", ":", "d", "d", ":", "d", "d">>

\* util.iso8601_to_datetime(s): a datetime, or None when s does not parse.
iso8601_to_datetime(x) ==
    IF x.t = "str" /\ (\/ MatchesPattern(x.s, IsoPattern)
                       \/ MatchesPattern(x.s, IsoPattern \o <<"Z">>))
    THEN [t |-> "datetime", s |-> x.s]
    ELSE None

TwoDigits(s, i) == DigitValue(s[i]) * 10 + DigitValue(s[i + 1])

\* util.position_to_seconds(s): the seconds of HH:MM:SS, or ValueError.
position_to_seconds(x) ==
    IF x.t = "str" /\ MatchesPattern(x.s, PositionPattern)
    THEN Return(PyInt(TwoDigits(x.s, 1) * 3600 + TwoDigits(x.s, 4) * 60
                      + TwoDigits(x.s, 7)))
    ELSE Raise("ValueError")

\* x in tup, for a tuple tup
in_tuple(x, tup) == \E i \in 1..Len(tup) : tup[i] = x

(***************************************************************************)
(* class PodcastDevice                                                     *)
(***************************************************************************)
VALID_TYPES ==
    <<PyStr(s_desktop), PyStr(s_laptop), PyStr(s_mobile), PyStr(s_server),
      PyStr(s_other)>>

\* PodcastDevice.__init__ without the check of the device type.
PodcastDevice_init_AnyType(device_id, caption, type, subscriptions) ==
    IF int(subscriptions).kind = "raise"
    THEN Raise("ValueError")
    ELSE Return([device_id |-> device_id,
                 caption |-> caption,
                 type |-> type,
                 subscriptions |-> int(subscriptions).value])

PodcastDevice_init(device_id, caption, type, subscriptions) ==
    IF ~in_tuple(type, VALID_TYPES)
    THEN Raise("ValueError")
    ELSE IF int(subscriptions).kind = "raise"
         THEN Raise("ValueError")
         ELSE Return([device_id |-> device_id,
                      caption |-> caption,
                      type |-> type,
                      subscriptions |-> int(subscriptions).value])

PodcastDevice_from_dictionary(d) ==
    IF {"id", "caption", "type", "subscriptions"} \subseteq DOMAIN d
    THEN PodcastDevice_init(d["id"], d["caption"], d["type"], d["subscriptions"])
    ELSE Raise("KeyError")

(***************************************************************************)
(* class EpisodeAction                                                     *)
(***************************************************************************)
VALID_ACTIONS == <<PyStr(s_download), PyStr(s_play), PyStr(s_delete), PyStr(s_new)>>

\* EpisodeAction.__init__ without the check of position against action.
EpisodeAction_init_AnyPosition(podcast, episode, action, device, timestamp, position) ==
    IF ~in_tuple(action, VALID_ACTIONS)
    THEN Raise("ValueError")
    ELSE IF timestamp /= None /\ iso8601_to_datetime(timestamp) = None
    THEN Raise("ValueError")
    ELSE IF position /= None /\ position_to_seconds(position).kind = "raise"
    THEN Raise("ValueError")
    ELSE Return([podcast |-> podcast,
                 episode |-> episode,
                 action |-> action,
                 device |-> device,
                 timestamp |-> timestamp,
                 position |-> position])

EpisodeAction_init(podcast, episode, action, device, timestamp, position) ==
    IF ~in_tuple(action, VALID_ACTIONS)
    THEN Raise("ValueError")
    ELSE IF action /= PyStr(s_play) /\ position /= None
    THEN Raise("ValueError")
    ELSE IF timestamp /= None /\ iso8601_to_datetime(timestamp) = None
    THEN Raise("ValueError")
    ELSE IF position /= None /\ position_to_seconds(position).kind = "raise"
    THEN Raise("ValueError")
    ELSE Return([podcast |-> podcast,
                 episode |-> episode,
                 action |-> action,
                 device |-> device,
                 timestamp |-> timestamp,
                 position |-> position])

\* EpisodeAction.from_dictionary reading the optional keys with d[key].
EpisodeAction_from_dictionary_Subscript(d) ==
    IF {"podcast", "episode", "action", "device", "timestamp", "position"}
           \subseteq DOMAIN d
    THEN EpisodeAction_init(d["podcast"], d["episode"], d["action"],
                            d["device"], d["timestamp"], d["position"])
    ELSE Raise("KeyError")

EpisodeAction_from_dictionary(d) ==
    IF {"podcast", "episode", "action"} \subseteq DOMAIN d
    THEN EpisodeAction_init(d["podcast"], d["episode"], d["action"],
                            dict_get(d, "device"), dict_get(d, "timestamp"),
                            dict_get(d, "position"))
    ELSE Raise("KeyError")

MandatoryKeys == {"podcast", "episode", "action"}
OptionalKeys == {"device", "timestamp", "position"}

\* to_dictionary without the test of the optional values against None.
to_dictionary_AllKeys(self) ==
    [k \in MandatoryKeys \cup OptionalKeys |-> self[k]]

to_dictionary(self) ==
    [k \in MandatoryKeys \cup {o \in OptionalKeys : self[o] /= None} |-> self[k]]

(***************************************************************************)
(* class MygPodderClient.  The transport's answer to the one request of a  *)
(* call is the parameter response.  Every operation yields the requests it *)
(* made of the transport, in order, its outcome, and the contents of the   *)
(* list objects it was passed as they are when it ends.                    *)
(***************************************************************************)
Locator(name, args) == [locator |-> name, args |-> args]
Request(verb, uri, data) == [verb |-> verb, uri |-> uri, data |-> data]
Result(requests, outcome, lists) ==
    [requests |-> requests, outcome |-> outcome, lists |-> lists]

\* try: since = int(timestamp) / except ValueError: raise InvalidResponse
coerce_timestamp(timestamp) ==
    LET r == int(timestamp)
    IN  IF r.kind = "raise" /\ r.exc = "ValueError" THEN Raise("InvalidResponse") ELSE r

\* update_subscriptions posting before it checks its arguments.
update_subscriptions_PostFirst(device_id, add_urls, remove_urls, response) ==
    LET uri == Locator("add_remove_subscriptions_uri", <<device_id>>)
        lists == [add_urls |-> add_urls, remove_urls |-> remove_urls]
        data == [add |-> add_urls, remove |-> remove_urls]
        sent == <<Request("POST", uri, data)>>
    IN  IF ~all_str(add_urls) THEN Result(sent, Raise("ValueError"), lists)
        ELSE IF ~all_str(remove_urls) THEN Result(sent, Raise("ValueError"), lists)
        ELSE IF response = None THEN Result(sent, Raise("InvalidResponse"), lists)
        ELSE IF "timestamp" \notin DOMAIN response
        THEN Result(sent, Raise("InvalidResponse"), lists)
        ELSE Result(sent, coerce_timestamp(response["timestamp"]), lists)

update_subscriptions(device_id, add_urls, remove_urls, response) ==
    LET uri == Locator("add_remove_subscriptions_uri", <<device_id>>)
        lists == [add_urls |-> add_urls, remove_urls |-> remove_urls]
        data == [add |-> add_urls, remove |-> remove_urls]
        sent == <<Request("POST", uri, data)>>
    IN  IF ~all_str(add_urls) THEN Result(<<>>, Raise("ValueError"), lists)
        ELSE IF ~all_str(remove_urls) THEN Result(<<>>, Raise("ValueError"), lists)
        ELSE IF response = None THEN Result(sent, Raise("InvalidResponse"), lists)
        ELSE IF "timestamp" \notin DOMAIN response
        THEN Result(sent, Raise("InvalidResponse"), lists)
        ELSE Result(sent, coerce_timestamp(response["timestamp"]), lists)

\* pull_subscriptions without the check of the elements of remove.
pull_subscriptions_RemoveUnchecked(device_id, since, data) ==
    LET uri == Locator("subscription_updates_uri", <<device_id, since>>)
        sent == <<Request("GET", uri, None)>>
        ts == coerce_timestamp(data["timestamp"])
    IN  IF data = None THEN Result(sent, Raise("InvalidResponse"), EmptyDict)
        ELSE IF "add" \notin DOMAIN data
        THEN Result(sent, Raise("InvalidResponse"), EmptyDict)
        ELSE IF "remove" \notin DOMAIN data
        THEN Result(sent, Raise("InvalidResponse"), EmptyDict)
        ELSE IF "timestamp" \notin DOMAIN data
        THEN Result(sent, Raise("InvalidResponse"), EmptyDict)
        ELSE IF ~all_str(data["add"])
        THEN Result(sent, Raise("InvalidResponse"), EmptyDict)
        ELSE IF ts.kind = "raise" THEN Result(sent, ts, EmptyDict)
        ELSE Result(sent,
                    Return([add |-> data["add"], remove |-> data["remove"],
                            since |-> ts.value]),
                    EmptyDict)

pull_subscriptions(device_id, since, data) ==
    LET uri == Locator("subscription_updates_uri", <<device_id, since>>)
        sent == <<Request("GET", uri, None)>>
        ts == coerce_timestamp(data["timestamp"])
    IN  IF data = None THEN Result(sent, Raise("InvalidResponse"), EmptyDict)
        ELSE IF "add" \notin DOMAIN data
        THEN Result(sent, Raise("InvalidResponse"), EmptyDict)
        ELSE IF "remove" \notin DOMAIN data
        THEN Result(sent, Raise("InvalidResponse"), EmptyDict)
        ELSE IF "timestamp" \notin DOMAIN data
        THEN Result(sent, Raise("InvalidResponse"), EmptyDict)
        ELSE IF ~all_str(data["add"])
        THEN Result(sent, Raise("InvalidResponse"), EmptyDict)
        ELSE IF ~all_str(data["remove"])
        THEN Result(sent, Raise("InvalidResponse"), EmptyDict)
        ELSE IF ts.kind = "raise" THEN Result(sent, ts, EmptyDict)
        ELSE Result(sent,
                    Return([add |-> data["add"], remove |-> data["remove"],
                            since |-> ts.value]),
                    EmptyDict)

\* upload_episode_actions converting the list it was passed in place.
upload_episode_actions_InPlace(actions, response) ==
    LET uri == Locator("upload_episode_actions_uri", <<>>)
        dicts == PyList([i \in 1..Len(actions.l) |-> to_dictionary(actions.l[i])])
        lists == [actions |-> dicts]
        sent == <<Request("POST", uri, dicts)>>
    IN  IF response = None THEN Result(sent, Raise("InvalidResponse"), lists)
        ELSE IF "timestamp" \notin DOMAIN response
        THEN Result(sent, Raise("InvalidResponse"), lists)
        ELSE Result(sent, coerce_timestamp(response["timestamp"]), lists)

upload_episode_actions(actions, response) ==
    LET uri == Locator("upload_episode_actions_uri", <<>>)
        lists == [actions |-> actions]
        dicts == PyList([i \in 1..Len(actions.l) |-> to_dictionary(actions.l[i])])
        sent == <<Request("POST", uri, dicts)>>
    IN  IF response = None THEN Result(sent, Raise("InvalidResponse"), lists)
        ELSE IF "timestamp" \notin DOMAIN response
        THEN Result(sent, Raise("InvalidResponse"), lists)
        ELSE Result(sent, coerce_timestamp(response["timestamp"]), lists)

\* [f(d) for d in dicts], given the outcomes of the f(d): the first
\* exception raised ends the comprehension.
comprehension(outcomes) ==
    IF \E i \in 1..Len(outcomes) : outcomes[i].kind = "raise"
    THEN outcomes[CHOOSE i \in 1..Len(outcomes) :
                    /\ outcomes[i].kind = "raise"
                    /\ \A j \in 1..(i - 1) : outcomes[j].kind = "return"]
    ELSE Return(PyList([i \in 1..Len(outcomes) |-> outcomes[i].value]))

\* except KeyError: raise InvalidResponse
except_KeyError(outcome) ==
    IF outcome.kind = "raise" /\ outcome.exc = "KeyError"
    THEN Raise("InvalidResponse")
    ELSE outcome

download_episode_actions(since, podcast, device_id, data) ==
    LET uri == Locator("download_episode_actions_uri", <<since, podcast, device_id>>)
        sent == <<Request("GET", uri, None)>>
        r == int(data["timestamp"])
        \* the handler concatenates a str and the timestamp for its message
        ts == IF r.kind = "raise" /\ r.exc = "ValueError"
              THEN IF isinstance_str(data["timestamp"])
                   THEN Raise("InvalidResponse")
                   ELSE Raise("TypeError")
              ELSE r
        dicts == data["actions"]
        actions == except_KeyError(comprehension(
                       [i \in 1..Len(dicts.l) |-> EpisodeAction_from_dictionary(dicts.l[i])]))
    IN  IF data = None THEN Result(sent, Raise("InvalidResponse"), EmptyDict)
        ELSE IF "actions" \notin DOMAIN data
        THEN Result(sent, Raise("InvalidResponse"), EmptyDict)
        ELSE IF "timestamp" \notin DOMAIN data
        THEN Result(sent, Raise("InvalidResponse"), EmptyDict)
        ELSE IF ts.kind = "raise" THEN Result(sent, ts, EmptyDict)
        ELSE IF actions.kind = "raise" THEN Result(sent, actions, EmptyDict)
        ELSE Result(sent,
                    Return([actions |-> actions.value, since |-> ts.value]),
                    EmptyDict)

\* update_device_settings putting caption and type whatever their value.
update_device_settings_AllKeys(device_id, caption, type, response) ==
    LET uri == Locator("device_settings_uri", <<device_id>>)
        data == [caption |-> caption, type |-> type]
    IN  Result(<<Request("PUT", uri, data)>>, Return(PyBool(response = None)),
               EmptyDict)

update_device_settings(device_id, caption, type, response) ==
    LET uri == Locator("device_settings_uri", <<device_id>>)
        keys == {k \in {"caption"} : caption /= None} \cup {k \in {"type"} : type /= None}
        data == [k \in keys |-> IF k = "caption" THEN caption ELSE type]
    IN  Result(<<Request("PUT", uri, data)>>, Return(PyBool(response = None)),
               EmptyDict)

get_devices(dicts) ==
    LET uri == Locator("device_list_uri", <<>>)
        sent == <<Request("GET", uri, None)>>
    IN  IF dicts = None THEN Result(sent, Raise("InvalidResponse"), EmptyDict)
        ELSE Result(sent,
                    except_KeyError(comprehension(
                        [i \in 1..Len(dicts.l) |-> PodcastDevice_from_dictionary(dicts.l[i])])),
                    EmptyDict)

(***************************************************************************)
(* Inputs: the arguments of the calls and the answers of the transport.    *)
(***************************************************************************)
Absent == [t |-> "absent"]
NoResponse == [t |-> "no response"]
Default == [t |-> "default"]

\* The dict of the keys of f whose value is not Absent.
Present(f) == [k \in {j \in DOMAIN f : f[j] /= Absent} |-> f[k]]

u_a == PyStr(<<"a">>)
u_b == PyStr(<<"b">>)
p_feed == PyStr(<<"p">>)
e_guid == PyStr(<<"e">>)
dev_1 == PyStr(<<"d", "1">>)
cap_C == PyStr(<<"C">>)

ActionInputs ==
    {PyStr(s_download), PyStr(s_play), PyStr(s_delete), PyStr(s_new), PyStr(s_bogus)}
DeviceInputs == {None, dev_1}
TimestampInputs == {None, PyStr(s_iso), PyStr(s_not_iso)}
PositionInputs == {None, PyStr(s_pos), PyStr(s_not_pos)}

TypeInputs == {PyStr(s_mobile), PyStr(s_other), PyStr(s_tablet)}
SubscriptionsInputs ==
    {PyInt(3), PyInt(0 - 1), PyStr(<<"3">>), PyStr(<<"-", "2">>), PyStr(<<" ", "7">>),
     PyStr(<<"x">>), PyFloat(37), PyInf, None, PyList(<<PyInt(1)>>)}

\* The EpisodeAction objects the constructor builds from the inputs.
EpisodeActions ==
    {r.value : r \in {o \in {EpisodeAction_init(p_feed, e_guid, a, d, t, pos) :
                                a \in ActionInputs, d \in DeviceInputs,
                                t \in TimestampInputs, pos \in PositionInputs} :
                       o.kind = "return"}}

\* Dictionaries as a server may send them for an episode action.
EpisodeActionDicts ==
    {Present([podcast |-> p, episode |-> e_guid, action |-> a, device |-> d,
              timestamp |-> t, position |-> pos]) :
        p \in {Absent, p_feed},
        a \in {Absent, PyStr(s_play), PyStr(s_new), PyStr(s_bogus)},
        d \in {Absent},
        t \in {Absent, PyStr(s_iso_z), PyStr(s_not_iso)},
        pos \in {Absent} \cup PositionInputs}

\* Dictionaries as a server may send them for a device.
PodcastDeviceDicts ==
    {Present([id |-> i, caption |-> cap_C, type |-> ty, subscriptions |-> n]) :
        i \in {Absent, dev_1},
        ty \in {Absent, PyStr(s_mobile), PyStr(s_tablet)},
        n \in {Absent} \cup SubscriptionsInputs}

\* Values a server may send as the timestamp of a response.
TimestampValues ==
    {PyInt(5), PyStr(<<"4", "2">>),
     PyStr(<<"x">>), PyStr(<<>>), None, PyList(<<PyInt(5)>>), PyFloat(15), PyNaN, PyInf}

\* Answers to update_subscriptions and upload_episode_actions.
TimestampResponses ==
    {None} \cup {Present([timestamp |-> t]) : t \in {Absent} \cup TimestampValues}

UrlLists == {PyList(l) : l \in SeqsUpTo({u_a, PyInt(7)}, MaxUrls)}
RemoveLists == {PyList(<<>>), PyList(<<u_b>>), PyList(<<None>>)}

\* Answers to pull_subscriptions.
SubscriptionResponses ==
    {None} \cup
    {Present([add |-> a, remove |-> r, timestamp |-> t]) :
        a \in {Absent} \cup UrlLists,
        r \in {Absent, PyList(<<>>), PyList(<<None>>)},
        t \in {Absent} \cup TimestampValues}

ea_play ==
    [podcast |-> p_feed, episode |-> e_guid, action |-> PyStr(s_play),
     device |-> dev_1, timestamp |-> None, position |-> PyStr(s_pos)]
ea_new ==
    [podcast |-> p_feed, episode |-> e_guid, action |-> PyStr(s_new),
     device |-> None, timestamp |-> PyStr(s_iso), position |-> None]

ActionLists == {PyList(l) : l \in SeqsUpTo({ea_play, ea_new}, MaxActions)}

d_new == [podcast |-> p_feed, episode |-> e_guid, action |-> PyStr(s_new)]
d_bogus == [podcast |-> p_feed, episode |-> e_guid, action |-> PyStr(s_bogus)]
d_new_pos ==
    [podcast |-> p_feed, episode |-> e_guid, action |-> PyStr(s_new),
     position |-> PyStr(s_pos)]
d_no_podcast == [episode |-> e_guid, action |-> PyStr(s_play)]

\* Answers to download_episode_actions.
ActionResponses ==
    {None} \cup
    {Present([actions |-> l, timestamp |-> t]) :
        l \in {Absent} \cup
              {PyList(q) :
                  q \in SeqsUpTo({d_new, d_bogus, d_new_pos, d_no_podcast}, MaxActions)},
        t \in {Absent} \cup TimestampValues}

dd_mobile ==
    [id |-> dev_1, caption |-> cap_C, type |-> PyStr(s_mobile),
     subscriptions |-> PyStr(<<"3">>)]
dd_tablet ==
    [id |-> dev_1, caption |-> cap_C, type |-> PyStr(s_tablet),
     subscriptions |-> PyInt(3)]
dd_not_numeric ==
    [id |-> dev_1, caption |-> cap_C, type |-> PyStr(s_other),
     subscriptions |-> PyStr(<<"x">>)]
dd_no_id == [caption |-> cap_C, type |-> PyStr(s_mobile), subscriptions |-> PyInt(0)]

\* Answers to get_devices.
DeviceResponses ==
    {None} \cup
    {PyList(q) :
        q \in SeqsUpTo({dd_mobile, dd_tablet, dd_not_numeric, dd_no_id}, MaxDevices)}

\* Answers to update_device_settings.
SettingsResponses == {None, EmptyDict, PyStr(<<>>), PyBool(FALSE)}

(***************************************************************************)
(* The state: the client object, the default argument lists shared by all  *)
(* calls, and the record of the last completed call.                       *)
(***************************************************************************)
Completed(op, args, defaulted, src, result, response) ==
    [op |-> op, args |-> args, defaulted |-> defaulted, src |-> src,
     response |-> IF result.requests = <<>> THEN NoResponse ELSE response,
     requests |-> result.requests, outcome |-> result.outcome,
     lists |-> result.lists]

\* A call that makes no request of the transport and is passed no list.
Local(outcome) == Result(<<>>, outcome, EmptyDict)

\* The value of a parameter: the shared default object when not passed.
Bind(arg, name) == IF arg = Default THEN defaults[name] ELSE arg

Init ==
    /\ client = [_client |-> "transport", _locator |-> "locator"]
    /\ defaults = [add_urls |-> PyList(<<>>), remove_urls |-> PyList(<<>>),
                   actions |-> PyList(<<>>)]
    /\ last = Completed("none", EmptyDict, {}, None, Local(Return(None)), NoResponse)

\* EpisodeAction(podcast, episode, action, device, timestamp, position)
NewEpisodeAction ==
    \E a \in ActionInputs, d \in DeviceInputs, t \in TimestampInputs,
       pos \in PositionInputs :
        /\ last' = Completed("EpisodeAction",
                       [podcast |-> p_feed, episode |-> e_guid, action |-> a,
                        device |-> d, timestamp |-> t, position |-> pos],
                       {}, None,
                       Local(EpisodeAction_init(p_feed, e_guid, a, d, t, pos)),
                       NoResponse)
        /\ UNCHANGED <<client, defaults>>

\* e.to_dictionary() for an EpisodeAction e
ToDictionary ==
    \E e \in EpisodeActions :
        /\ last' = Completed("to_dictionary", [self |-> e], {}, None,
                       Local(Return(to_dictionary(e))), NoResponse)
        /\ UNCHANGED <<client, defaults>>

\* EpisodeAction.from_dictionary(d), for d from a server or the dictionary
\* that the last to_dictionary() returned (src is then its EpisodeAction).
FromDictionary ==
    \/ \E d \in EpisodeActionDicts :
        /\ last' = Completed("EpisodeAction.from_dictionary", [d |-> d], {}, None,
                       Local(EpisodeAction_from_dictionary(d)), NoResponse)
        /\ UNCHANGED <<client, defaults>>
    \/ /\ last.op = "to_dictionary"
       /\ last' = Completed("EpisodeAction.from_dictionary",
                      [d |-> last.outcome.value], {}, last.args.self,
                      Local(EpisodeAction_from_dictionary(last.outcome.value)),
                      NoResponse)
       /\ UNCHANGED <<client, defaults>>

\* PodcastDevice(device_id, caption, type, subscriptions)
NewPodcastDevice ==
    \E ty \in TypeInputs, n \in SubscriptionsInputs :
        /\ last' = Completed("PodcastDevice",
                       [device_id |-> dev_1, caption |-> cap_C, type |-> ty,
                        subscriptions |-> n],
                       {}, None, Local(PodcastDevice_init(dev_1, cap_C, ty, n)),
                       NoResponse)
        /\ UNCHANGED <<client, defaults>>

\* PodcastDevice.from_dictionary(d)
DeviceFromDictionary ==
    \E d \in PodcastDeviceDicts :
        /\ last' = Completed("PodcastDevice.from_dictionary", [d |-> d], {}, None,
                       Local(PodcastDevice_from_dictionary(d)), NoResponse)
        /\ UNCHANGED <<client, defaults>>

\* client.update_subscriptions(device_id[, add_urls[, remove_urls]])
UpdateSubscriptions ==
    \E add_arg \in {Default} \cup UrlLists, remove_arg \in {Default} \cup RemoveLists,
       response \in TimestampResponses :
        LET add_urls == Bind(add_arg, "add_urls")
            remove_urls == Bind(remove_arg, "remove_urls")
            r == update_subscriptions(dev_1, add_urls, remove_urls, response)
        IN  /\ last' = Completed("update_subscriptions",
                           [device_id |-> dev_1, add_urls |-> add_urls,
                            remove_urls |-> remove_urls],
                           {k \in {"add_urls"} : add_arg = Default}
                               \cup {k \in {"remove_urls"} : remove_arg = Default},
                           None, r, response)
            /\ defaults' =
                   [defaults EXCEPT
                       !.add_urls = IF add_arg = Default THEN r.lists.add_urls ELSE @,
                       !.remove_urls =
                           IF remove_arg = Default THEN r.lists.remove_urls ELSE @]
            /\ UNCHANGED client

\* client.pull_subscriptions(device_id[, since])
PullSubscriptions ==
    \E since \in {PyInt(5)}, response \in SubscriptionResponses :
        /\ last' = Completed("pull_subscriptions",
                       [device_id |-> dev_1, since |-> since], {}, None,
                       pull_subscriptions(dev_1, since, response), response)
        /\ UNCHANGED <<client, defaults>>

\* client.upload_episode_actions([actions])
UploadEpisodeActions ==
    \E actions_arg \in {Default} \cup ActionLists, response \in TimestampResponses :
        LET actions == Bind(actions_arg, "actions")
            r == upload_episode_actions(actions, response)
        IN  /\ last' = Completed("upload_episode_actions", [actions |-> actions],
                           {k \in {"actions"} : actions_arg = Default}, None, r,
                           response)
            /\ defaults' =
                   [defaults EXCEPT
                       !.actions = IF actions_arg = Default THEN r.lists.actions ELSE @]
            /\ UNCHANGED client

\* client.download_episode_actions([since[, podcast[, device_id]]])
DownloadEpisodeActions ==
    \E since \in {None}, response \in ActionResponses :
        /\ last' = Completed("download_episode_actions",
                       [since |-> since, podcast |-> None, device_id |-> None], {},
                       None,
                       download_episode_actions(since, None, None, response),
                       response)
        /\ UNCHANGED <<client, defaults>>

\* client.update_device_settings(device_id[, caption[, type]])
UpdateDeviceSettings ==
    \E caption \in {None, cap_C}, type \in {None, PyStr(s_mobile), PyStr(s_tablet)},
       response \in SettingsResponses :
        /\ last' = Completed("update_device_settings",
                       [device_id |-> dev_1, caption |-> caption, type |-> type], {},
                       None, update_device_settings(dev_1, caption, type, response),
                       response)
        /\ UNCHANGED <<client, defaults>>

\* client.get_devices()
GetDevices ==
    \E response \in DeviceResponses :
        /\ last' = Completed("get_devices", EmptyDict, {}, None,
                       get_devices(response), response)
        /\ UNCHANGED <<client, defaults>>

Next ==
    \/ NewEpisodeAction
    \/ ToDictionary
    \/ FromDictionary
    \/ NewPodcastDevice
    \/ DeviceFromDictionary
    \/ UpdateSubscriptions
    \/ PullSubscriptions
    \/ UploadEpisodeActions
    \/ DownloadEpisodeActions
    \/ UpdateDeviceSettings
    \/ GetDevices

Spec == Init /\ [][Next]_vars

(***************************************************************************)
(* Properties.                                                             *)
(***************************************************************************)
Returned == last.outcome.kind = "return"
Raised(e) == last.outcome.kind = "raise" /\ last.outcome.exc = e
Called == last.requests /= <<>>

RpcOps ==
    {"update_subscriptions", "pull_subscriptions", "upload_episode_actions",
     "download_episode_actions", "update_device_settings", "get_devices"}

\* What Python's int() makes of the values the inputs hold: <<value, integer>>
\* for each value it converts.  The other input values it rejects.
IntegerOf ==
    {<<PyInt(5), 5>>, <<PyInt(3), 3>>, <<PyInt(0 - 1), 0 - 1>>,
     <<PyStr(<<"4", "2">>), 42>>, <<PyStr(<<"3">>), 3>>,
     <<PyStr(<<"-", "2">>), 0 - 2>>, <<PyStr(<<" ", "7">>), 7>>,
     <<PyFloat(15), 1>>, <<PyFloat(37), 3>>}
Coercible(v) == \E p \in IntegerOf : p[1] = v
Coerced(v) == PyInt((CHOOSE p \in IntegerOf : p[1] = v)[2])

ActionNames == {PyStr(s_download), PyStr(s_play), PyStr(s_delete), PyStr(s_new)}
TypeNames ==
    {PyStr(s_desktop), PyStr(s_laptop), PyStr(s_mobile), PyStr(s_server),
     PyStr(s_other)}

\* C1: in update_subscriptions, pull_subscriptions, upload_episode_actions
\* and download_episode_actions, a response whose timestamp cannot be
\* coerced to an integer makes the call fail with InvalidResponse.
C1_UncoercibleTimestampIsInvalidResponse ==
    (/\ last.op \in {"update_subscriptions", "pull_subscriptions",
                     "upload_episode_actions", "download_episode_actions"}
     /\ Called
     /\ last.response /= None
     /\ "timestamp" \in DOMAIN last.response
     /\ ~Coercible(last.response["timestamp"]))
    => Raised("InvalidResponse")

\* C2: the local-validation errors (ValueError for InvalidArgument, KeyError
\* for MissingField) reach the caller only from calls that have made no
\* request of the transport.
C2_LocalValidationErrorsOnlyBeforeTransport ==
    (Raised("ValueError") \/ Raised("KeyError")) => ~Called

\* The action and position an EpisodeAction is being built from.
GivenAction ==
    IF last.op = "EpisodeAction" THEN last.args.action
    ELSE dict_get(last.args.d, "action")
GivenPosition ==
    IF last.op = "EpisodeAction" THEN last.args.position
    ELSE dict_get(last.args.d, "position")
WellFormedAction(e) ==
    /\ e.action \in ActionNames
    /\ e.position /= None => e.action = PyStr(s_play)

\* C3: every EpisodeAction built by the constructor or from_dictionary has
\* an action among download, play, delete, new, and a position only when
\* its action is play; inputs that break either rule build nothing.
C3_EpisodeActionInvariant ==
    /\ last.op \in {"EpisodeAction", "EpisodeAction.from_dictionary"} =>
        /\ Returned => WellFormedAction(last.outcome.value)
        /\ (\/ GivenAction \notin ActionNames
            \/ (GivenPosition /= None /\ GivenAction /= PyStr(s_play)))
           => ~Returned
    /\ (last.op = "download_episode_actions" /\ Returned) =>
        \A i \in 1..Len(last.outcome.value.actions.l) :
            WellFormedAction(last.outcome.value.actions.l[i])

C3_Witness ==
    /\ last.op = "EpisodeAction.from_dictionary"
    /\ Returned
    /\ last.outcome.value.position = PyStr(s_pos)
    /\ last.outcome.value.action = PyStr(s_play)

\* C4: from_dictionary(e.to_dictionary()) succeeds and yields the fields of
\* e: the mandatory ones, the optional ones that are set, and None for the
\* optional ones that are None in e.
C4_RoundTrip ==
    (last.op = "EpisodeAction.from_dictionary" /\ last.src /= None) =>
        /\ Returned
        /\ \A k \in MandatoryKeys \cup OptionalKeys :
               last.outcome.value[k] = last.src[k]

C4_Witness ==
    /\ last.op = "EpisodeAction.from_dictionary"
    /\ last.src /= None
    /\ last.src.position /= None
    /\ last.src.device = None
    /\ Returned

\* C5: the keys of to_dictionary() are podcast, episode, action and those of
\* device, timestamp, position whose field is not None, each mapped to the
\* field's value.
C5_ToDictionaryKeys ==
    last.op = "to_dictionary" =>
        LET e == last.args.self
            d == last.outcome.value
        IN  /\ DOMAIN d = {"podcast", "episode", "action"}
                   \cup {k \in {"device", "timestamp", "position"} : e[k] /= None}
            /\ \A k \in DOMAIN d : d[k] = e[k] /\ d[k] /= None

C5_Witness ==
    /\ last.op = "to_dictionary"
    /\ last.args.self.device = None
    /\ last.args.self.timestamp /= None
    /\ DOMAIN last.outcome.value = {"podcast", "episode", "action", "timestamp"}

\* The type, subscriptions and id a PodcastDevice is being built from.
GivenDevice ==
    IF last.op = "PodcastDevice"
    THEN [id |-> last.args.device_id, type |-> last.args.type,
          subscriptions |-> last.args.subscriptions]
    ELSE [id |-> dict_get(last.args.d, "id"), type |-> dict_get(last.args.d, "type"),
          subscriptions |-> dict_get(last.args.d, "subscriptions")]

NotAllStr(d, ks) == \E k \in ks \cap DOMAIN d : ~all_str(d[k])

C8_UpdateDeviceSettings ==
    last.op = "update_device_settings" =>
        /\ Returned
        /\ last.outcome.value = PyBool(last.response = None)
        /\ Len(last.requests) = 1
        /\ last.requests[1].verb = "PUT"
        /\ DOMAIN last.requests[1].data =
               {k \in {"caption", "type"} : last.args[k] /= None}
        /\ \A k \in DOMAIN last.requests[1].data :
               last.requests[1].data[k] = last.args[k]

C8_Witness ==
    /\ last.op = "update_device_settings"
    /\ last.args.caption /= None
    /\ last.args.type = None
    /\ last.response /= None
    /\ last.outcome.value = PyBool(FALSE)
    /\ DOMAIN last.requests[1].data = {"caption"}

\* C9: an RPC operation calls the transport at most once; exactly once when
\* it returns or raises InvalidResponse; and not at all when
\* update_subscriptions is given an element that is no string.
C9_OneRoundTrip ==
    last.op \in RpcOps =>
        /\ Len(last.requests) <= 1
        /\ (Returned \/ Raised("InvalidResponse")) => Len(last.requests) = 1
        /\ (/\ last.op = "update_subscriptions"
            /\ ~(all_str(last.args.add_urls) /\ all_str(last.args.remove_urls)))
           => (~Returned /\ last.requests = <<>>)

C9_Witness ==
    /\ last.op = "update_subscriptions"
    /\ all_str(last.args.add_urls)
    /\ ~all_str(last.args.remove_urls)
    /\ last.requests = <<>>
    /\ Raised("ValueError")

\* C10: no call changes the client object, a list it was passed or a shared
\* default list, so a call that leaves a list out sends the empty list.
C10_Stateless ==
    /\ client = [_client |-> "transport", _locator |-> "locator"]
    /\ \A k \in DOMAIN defaults : defaults[k] = PyList(<<>>)
    /\ \A k \in DOMAIN last.lists : last.lists[k] = last.args[k]
    /\ \A k \in last.defaulted : last.args[k] = PyList(<<>>)

C10_Witness ==
    /\ last.op = "upload_episode_actions"
    /\ last.defaulted = {}
    /\ Len(last.args.actions.l) = 2
    /\ Returned
    /\ last.lists.actions = last.args.actions

====
